---- MODULE Spec2Model ----
(***************************************************************************)
(* Model of BarcodeGenerator (src/main.py): the colour extractor, the      *)
(* batch driver generate_from_data, the grid paginator                     *)
(* create_pdf_from_barcodes with its grid geometry, and the label composer *)
(* create_barcode_label.                                                   *)
(*                                                                         *)
(* Strings are sequences of one-character strings, so that splitting,      *)
(* joining, upper-casing and number formatting are computed and not        *)
(* assumed.                                                                *)
(*                                                                         *)
(* src/main.py lines 456 and 493 are indented one level too shallow for    *)
(* the block they belong to; they are read as the body of the `elif` /     *)
(* `else` directly above them.                                             *)
(***************************************************************************)
EXTENDS Integers, Sequences, FiniteSets, TLC

VARIABLES
    \* extract_color_from_product
    product_string, color_result, color_pc,
    \* generate_from_data
    data_source, df, row_index, generated_files, output_dir, composer_calls,
    gen_log, gen_result, gen_pc,
    \* create_pdf_from_barcodes
    listing, grid_cols, grid_rows, unreadable, barcode_files, total_pages,
    page_num, page_images, img_i, assigned, cur_page, doc, warnings,
    pdf_result, pdf_pc,
    \* create_barcode_label
    label_row, label_args, fonts_available, font_of, label, y_pos, captions,
    label_pc

colorVars == <<product_string, color_result, color_pc>>
genVars == <<data_source, df, row_index, generated_files, output_dir, composer_calls,
             gen_log, gen_result, gen_pc>>
pdfVars == <<listing, grid_cols, grid_rows, unreadable, barcode_files, total_pages,
             page_num, page_images, img_i, assigned, cur_page, doc, warnings,
             pdf_result, pdf_pc>>
labelVars == <<label_row, label_args, fonts_available, font_of, label, y_pos,
               captions, label_pc>>
vars == <<colorVars, genVars, pdfVars, labelVars>>

----------------------------------------------------------------------------
(* Bounds *)

MaxLen == 6
MaxRecords == 3
MaxImages == 5
MaxGridCols == 2
MaxGridRows == 2

----------------------------------------------------------------------------
(* Python string primitives *)

Whitespace == {" ", "\t"}
Digits == {"0", "1", "2", "3", "4", "5", "6", "7", "8", "9"}
Alphabet == {"n", "a", "+", "3", " ", "\t"}

Str(s) == s

StringsUpTo(n) == UNION {[1..k -> Alphabet] : k \in 0..n}

UpperChar(c) ==
    CASE c = "n" -> "N"
      [] c = "a" -> "A"
      [] OTHER -> c

\* str.upper()
Upper(s) == [i \in 1..Len(s) |-> UpperChar(s[i])]

RECURSIVE LStrip(_)
LStrip(s) ==
    IF s # <<>> /\ Head(s) \in Whitespace THEN LStrip(Tail(s)) ELSE s

RECURSIVE RStrip(_)
RStrip(s) ==
    IF s # <<>> /\ s[Len(s)] \in Whitespace
    THEN RStrip(SubSeq(s, 1, Len(s) - 1)) ELSE s

\* str.strip()
Strip(s) == RStrip(LStrip(s))

\* str.split(): the maximal runs of non-whitespace characters, in order
RECURSIVE SplitFrom(_, _, _)
SplitFrom(s, cur, acc) ==
    IF s = <<>>
    THEN IF cur = <<>> THEN acc ELSE Append(acc, cur)
    ELSE IF Head(s) \in Whitespace
         THEN SplitFrom(Tail(s), <<>>, IF cur = <<>> THEN acc ELSE Append(acc, cur))
         ELSE SplitFrom(Tail(s), Append(cur, Head(s)), acc)

Split(s) == SplitFrom(s, <<>>, <<>>)

\* ' '.join(parts)
RECURSIVE Join(_)
Join(parts) ==
    IF parts = <<>> THEN <<>>
    ELSE IF Len(parts) = 1 THEN parts[1]
    ELSE parts[1] \o <<" ">> \o Join(Tail(parts))

\* parts[-2:]
LastTwo(parts) ==
    IF Len(parts) <= 2 THEN parts ELSE SubSeq(parts, Len(parts) - 1, Len(parts))

----------------------------------------------------------------------------
(* extract_color_from_product *)

UnknownColor == <<"U", "n", "k", "n", "o", "w", "n", " ", "C", "o", "l", "o", "r">>
NanStr == <<"n", "a", "n">>

IsStorageSpec_PlusOnly(part) ==
    \E i \in 1..Len(part) : part[i] = "+"

\* '+' in part and any(char.isdigit() for char in part)
IsStorageSpec(part) ==
    /\ \E i \in 1..Len(part) : part[i] = "+"
    /\ \E i \in 1..Len(part) : part[i] \in Digits

\* the for loop with break: 0 when no part is a storage spec, else one past
\* the (0-based) index of the first such part
color_start_index(parts) ==
    IF \E i \in 1..Len(parts) : IsStorageSpec(parts[i])
    THEN CHOOSE i \in 1..Len(parts) :
            /\ IsStorageSpec(parts[i])
            /\ \A j \in 1..(i - 1) : ~IsStorageSpec(parts[j])
    ELSE 0

ColorFallback_LastOne(parts) ==
    IF Len(parts) >= 1 THEN Upper(parts[Len(parts)]) ELSE UnknownColor

\* the fallback branch: the last two words
ColorFallback(parts) ==
    IF Len(parts) >= 2 THEN Upper(Join(LastTwo(parts))) ELSE UnknownColor

\* the function with its guards dropped: no placeholder test, no token-count
\* test, the last words joined whatever their number
extract_color_Unguarded(s) ==
    LET parts == Split(Strip(Str(s)))
        csi == color_start_index(parts)
    IN  IF csi > 0 /\ csi < Len(parts)
        THEN Upper(Join(SubSeq(parts, csi + 1, Len(parts))))
        ELSE Upper(Join(LastTwo(parts)))

extract_color_from_product(s) ==
    IF s = <<>> \/ s = NanStr THEN UnknownColor
    ELSE LET parts == Split(Strip(Str(s))) IN
         IF Len(parts) < 2 THEN UnknownColor
         ELSE LET csi == color_start_index(parts) IN
              IF csi > 0 /\ csi < Len(parts)
              THEN LET color == Join(SubSeq(parts, csi + 1, Len(parts))) IN
                   IF color # <<>> THEN Upper(color) ELSE UnknownColor
              ELSE ColorFallback(parts)

----------------------------------------------------------------------------
(* generate_from_data: the data frame and the per-row extraction *)

\* a missing cell of a data frame (float NaN); str() of it is 'nan'
NaN == <<"<NaN>">>
EmptyStr == <<>>

\* str(value)
StrOf(v) == IF v = NaN THEN NanStr ELSE v

\* row.get(key, default)
RowGet(row, key, default) == IF key \in DOMAIN row THEN row[key] ELSE default

UnknownModel == <<"U", "n", "k", "n", "o", "w", "n">>
DefaultDn == <<"M", "8", "N", "7">>

RowImei(row) ==
    StrOf(RowGet(row, "imei", RowGet(row, "IMEI/SN", RowGet(row, "IMEI", EmptyStr))))

RowBoxId(row) ==
    StrOf(RowGet(row, "box_id", RowGet(row, "Box ID", RowGet(row, "Boxid", EmptyStr))))

RowModel(row) == StrOf(RowGet(row, "model", RowGet(row, "Model", UnknownModel)))

RowProduct(row) == StrOf(RowGet(row, "product", RowGet(row, "Product", EmptyStr)))

RowColor(row) ==
    LET product == RowProduct(row) IN
    IF product # EmptyStr /\ product # NanStr
    THEN extract_color_from_product(product)
    ELSE StrOf(RowGet(row, "color", RowGet(row, "Color", UnknownColor)))

RowDn(row) == StrOf(RowGet(row, "dn", RowGet(row, "DN", DefaultDn)))

NoImei_EmptyOnly(imei) == imei = EmptyStr

\* not imei or imei == 'nan'
NoImei(imei) == imei = EmptyStr \/ imei = NanStr

DigitChars == <<"0", "1", "2", "3", "4", "5", "6", "7", "8", "9">>

\* str(n) for n >= 0
RECURSIVE Decimal(_)
Decimal(n) ==
    IF n < 10 THEN <<DigitChars[n + 1]>>
    ELSE Decimal(n \div 10) \o <<DigitChars[(n % 10) + 1]>>

LabelFilename_ByCount(imei, index, produced) ==
    <<"barcode_label_">> \o imei \o <<"_">> \o Decimal(produced + 1) \o <<".png">>

\* f"barcode_label_{imei}_{index+1}.png"; produced = len(generated_files),
\* which the name does not use
LabelFilename(imei, index, produced) ==
    <<"barcode_label_">> \o imei \o <<"_">> \o Decimal(index + 1) \o <<".png">>

\* os.path.join(self.output_dir, filename)
LabelFilepath(filename) == <<"generated_barcodes/">> \o filename

\* the keyword arguments of the create_barcode_label call
ComposerArgs(row) ==
    [imei |-> RowImei(row), box_id |-> RowBoxId(row), model |-> RowModel(row),
     color |-> RowColor(row), dn |-> RowDn(row)]

----------------------------------------------------------------------------
(* create_pdf_from_barcodes: grid arithmetic *)

DefaultGridCols == 5
DefaultGridRows == 12

\* A4 is 210 mm x 297 mm at 72/25.4 points per mm: 75600/127 x 106920/127
\* points.  Lengths are kept as integers, x in units of 1/(127 * grid_cols)
\* point and y in units of 1/(127 * grid_rows) point.
PointDen == 127
PageWidthNum == 75600
PageHeightNum == 106920
Margin == 20
ImagePadding == 5

\* file names are numbered in their sorted order and are distinct

SortFiles_Unsorted(files) == files

\* barcode_files.sort(): position k holds the name with k - 1 smaller names
SortFiles(files) ==
    LET names == {files[k] : k \in DOMAIN files} IN
    [k \in 1..Len(files) |->
        CHOOSE f \in names : Cardinality({g \in names : g < f}) = k - 1]

TotalPages_PlusOne(n, images_per_page) == (n \div images_per_page) + 1

\* (len(barcode_files) + images_per_page - 1) // images_per_page
TotalPages(n, images_per_page) == (n + images_per_page - 1) \div images_per_page

Min(a, b) == IF a < b THEN a ELSE b

\* barcode_files[start_idx:end_idx] of page page_no
PageSlice(files, page_no, images_per_page) ==
    LET start_idx == page_no * images_per_page
        end_idx == Min(start_idx + images_per_page, Len(files))
    IN  SubSeq(files, start_idx + 1, end_idx)

GridCell_ColumnMajor(i, cols, rows) == [row |-> i % rows, col |-> i \div rows]

\* row = i // grid_cols, col = i % grid_cols
GridCell(i, cols, rows) == [row |-> i \div cols, col |-> i % cols]

\* x = margin + col * cell_width + image_padding, times 127 * cols
CellX(col, cols) ==
    (Margin + ImagePadding) * PointDen * cols
        + col * (PageWidthNum - 2 * Margin * PointDen)

\* y = page_height - margin - (row + 1) * cell_height + image_padding,
\* times 127 * rows
CellY(row, rows) ==
    PageHeightNum * rows - Margin * PointDen * rows
        - (row + 1) * (PageHeightNum - 2 * Margin * PointDen)
        + ImagePadding * PointDen * rows

\* lines 382-387: available_width and available_height in 1/PointDen pt; they
\* are also cell_width in 1/(PointDen*cols) pt and cell_height in
\* 1/(PointDen*rows) pt
AvailableWidthNum == PageWidthNum - 2 * Margin * PointDen

AvailableHeightNum == PageHeightNum - 2 * Margin * PointDen

\* the image as wide as the whole cell
ImageWidthNum_Unpadded(cols) == AvailableWidthNum

\* line 391: image_width = cell_width - 2 * image_padding, in 1/(PointDen*cols) pt
ImageWidthNum(cols) == AvailableWidthNum - 2 * ImagePadding * PointDen * cols

\* line 392: image_height, in 1/(PointDen*rows) pt
ImageHeightNum(rows) == AvailableHeightNum - 2 * ImagePadding * PointDen * rows

\* lines 410-423: the rectangle handed to drawImage for the i-th image of a
\* page (anchor 'sw': x, y is its bottom-left corner)
Placement(file, i, cols, rows) ==
    LET cell == GridCell(i, cols, rows)
    IN  [file |-> file, row |-> cell.row, col |-> cell.col,
         x |-> CellX(cell.col, cols), y |-> CellY(cell.row, rows),
         w |-> ImageWidthNum(cols), h |-> ImageHeightNum(rows)]

----------------------------------------------------------------------------
(* State of the operations that are not running under a specification *)

GenIdle ==
    /\ data_source = [kind |-> "none"]
    /\ gen_result = [none |-> TRUE, files |-> <<>>]
    /\ df = <<>>
    /\ row_index = 0
    /\ generated_files = <<>>
    /\ output_dir = {}
    /\ composer_calls = <<>>
    /\ gen_log = <<>>
    /\ gen_pc = "idle"

PdfIdle ==
    /\ listing = <<>>
    /\ grid_cols = 0
    /\ grid_rows = 0
    /\ unreadable = {}
    /\ barcode_files = <<>>
    /\ total_pages = 0
    /\ page_num = 0
    /\ page_images = <<>>
    /\ img_i = 0
    /\ assigned = <<>>
    /\ cur_page = <<>>
    /\ doc = <<>>
    /\ warnings = <<>>
    /\ pdf_result = [none |-> TRUE]
    /\ pdf_pc = "idle"

ColorIdle ==
    /\ product_string = <<>>
    /\ color_result = <<>>
    /\ color_pc = "idle"

LabelIdle ==
    /\ label_row = [none |-> TRUE]
    /\ label_args = [none |-> TRUE]
    /\ fonts_available = {}
    /\ font_of = [none |-> TRUE]
    /\ label = [none |-> TRUE]
    /\ y_pos = 0
    /\ captions = <<>>
    /\ label_pc = "idle"

----------------------------------------------------------------------------
(* Specification of the colour extractor: one call on an arbitrary string *)

InitColor ==
    /\ product_string \in StringsUpTo(MaxLen)
    /\ color_result = <<>>
    /\ color_pc = "call"
    /\ GenIdle
    /\ PdfIdle
    /\ LabelIdle

ExtractColor ==
    /\ color_pc = "call"
    /\ color_result' = extract_color_from_product(product_string)
    /\ color_pc' = "returned"
    /\ UNCHANGED <<product_string, genVars, pdfVars,
                   labelVars>>

NextColor == ExtractColor

SpecColor == InitColor /\ [][NextColor]_vars

----------------------------------------------------------------------------
(* The colour extractor's claims.  Tokens are characterised here by their  *)
(* positions in the input, independently of Split.                         *)

\* <<i, j>> is a maximal run of non-whitespace characters of s
IsTokenSpan(s, i, j) ==
    /\ i <= j
    /\ \A k \in i..j : s[k] \notin Whitespace
    /\ (i = 1 \/ s[i - 1] \in Whitespace)
    /\ (j = Len(s) \/ s[j + 1] \in Whitespace)

TokenStarts(s) == {i \in 1..Len(s) : \E j \in i..Len(s) : IsTokenSpan(s, i, j)}

TokenAt(s, i) == SubSeq(s, i, CHOOSE j \in i..Len(s) : IsTokenSpan(s, i, j))

\* the k-th token start, counting from 1
NthStart(s, k) ==
    CHOOSE i \in TokenStarts(s) : Cardinality({m \in TokenStarts(s) : m < i}) = k - 1

Tokens(s) == [k \in 1..Cardinality(TokenStarts(s)) |-> TokenAt(s, NthStart(s, k))]

HasPlus(tok) == \E i \in 1..Len(tok) : tok[i] = "+"
HasDigit(tok) == \E i \in 1..Len(tok) : tok[i] \in Digits
IsSpecifier(tok) == HasPlus(tok) /\ HasDigit(tok)

HasSpecifier(toks) == \E i \in 1..Len(toks) : IsSpecifier(toks[i])

FirstSpecifier(toks) ==
    CHOOSE i \in 1..Len(toks) :
        IsSpecifier(toks[i]) /\ \A j \in 1..(i - 1) : ~IsSpecifier(toks[j])

IsText(v) == \A i \in 1..Len(v) : v[i] \in STRING

ColorReturned == color_pc = "returned"

C2_SpecifierLastGivesSentinel ==
    ColorReturned =>
        LET toks == Tokens(product_string) IN
        (HasSpecifier(toks) /\ FirstSpecifier(toks) = Len(toks))
        => color_result = UnknownColor

\* C3: with at least two tokens and no specifier token, the result is the
\* last two tokens joined by one space and upper-cased.
C3_FallbackLastTwo ==
    ColorReturned =>
        LET toks == Tokens(product_string)
            n == Len(toks)
        IN  (n >= 2 /\ ~HasSpecifier(toks))
            => color_result = Upper(toks[n - 1] \o <<" ">> \o toks[n])

\* three tokens without a specifier, one of them holding a '+': only the last
\* two are returned
C3_Witness ==
    /\ ColorReturned
    /\ LET toks == Tokens(product_string) IN
       /\ Len(toks) = 3
       /\ ~HasSpecifier(toks)
       /\ \E i \in 1..3 : HasPlus(toks[i])
       /\ color_result = Upper(toks[2] \o <<" ">> \o toks[3])

\* C4: the call always returns a text, and for the empty string, 'nan', a
\* whitespace-only string or a single token it returns the sentinel.
C4_TotalAndSentinel ==
    /\ color_pc = "call" => IsText(extract_color_from_product(product_string))
    /\ ColorReturned =>
          /\ IsText(color_result)
          /\ color_result # <<>>
          /\ (\/ product_string = <<>>
              \/ product_string = NanStr
              \/ Len(Tokens(product_string)) <= 1)
             => color_result = UnknownColor

\* a one-token specifier, surrounded by whitespace, gives the sentinel
C4_Witness ==
    /\ ColorReturned
    /\ Len(Tokens(product_string)) = 1
    /\ IsSpecifier(Tokens(product_string)[1])
    /\ Head(product_string) \in Whitespace
    /\ color_result = UnknownColor

----------------------------------------------------------------------------
(* Specification of generate_from_data: one call on one data source *)

ImeiCells == {NaN, EmptyStr, <<"1">>, <<"1", "_", "1">>}
BoxCells == {<<"7">>}
ProductCells == {NaN, <<"a", " ", "3", "+", " ", "n">>}
OtherCells == {<<"n">>}

CellsOf(column) ==
    CASE column \in {"imei", "IMEI/SN", "IMEI"} -> ImeiCells
      [] column \in {"box_id", "Box ID", "Boxid"} -> BoxCells
      [] column \in {"product", "Product"} -> ProductCells
      [] OTHER -> OtherCells

RowsOf(columns) == {row \in [columns -> UNION {CellsOf(c) : c \in columns}] :
                       \A c \in columns : row[c] \in CellsOf(c)}

FramesOf(columns, lens) == UNION {[1..n -> RowsOf(columns)] : n \in lens}

ListColumns == {{"imei", "box_id", "product"}, {"IMEI", "Boxid", "model", "dn"}, {"model"}}
SheetColumns == {"IMEI/SN", "Box ID", "Product", "color"}

DataSources ==
    UNION {
        {[kind |-> "list", rows |-> f] :
            f \in UNION {FramesOf(c, 0..MaxRecords) : c \in ListColumns}},
        {[kind |-> "dict", rows |-> f] : f \in FramesOf({"imei", "Color"}, {1})},
        {[kind |-> "path", exists |-> TRUE, ext |-> e, readable |-> TRUE, rows |-> f] :
            e \in {"csv", "xlsx"}, f \in FramesOf(SheetColumns, {MaxRecords})},
        {[kind |-> "path", exists |-> x, ext |-> e, readable |-> r, rows |-> <<>>] :
            x \in BOOLEAN, e \in {"csv", "xls", "txt"}, r \in BOOLEAN},
        {[kind |-> "other"]}
    }

InitGen ==
    /\ data_source \in DataSources
    /\ df = <<>>
    /\ row_index = 0
    /\ generated_files = <<>>
    /\ output_dir = {}
    /\ composer_calls = <<>>
    /\ gen_log = <<>>
    /\ gen_result = [none |-> TRUE, files |-> <<>>]
    /\ gen_pc = "start"
    /\ ColorIdle
    /\ PdfIdle
    /\ LabelIdle

\* lines 440-476: whether the source yields a data frame
Loads(src) ==
    \/ src.kind \in {"dict", "list"}
    \/ /\ src.kind = "path"
       /\ src.exists
       /\ src.ext \in {"xlsx", "xls", "csv"}
       /\ src.readable

GenLoad ==
    /\ gen_pc = "start"
    /\ Loads(data_source)
    /\ df' = data_source.rows
    /\ gen_pc' = "loop"
    /\ UNCHANGED <<data_source, row_index, generated_files, output_dir,
                   composer_calls, gen_log, gen_result, colorVars, pdfVars,
                   labelVars>>

\* file not found, unsupported extension, read error or unsupported source
\* type: an error line is printed and the call returns None
GenLoadFails ==
    /\ gen_pc = "start"
    /\ ~Loads(data_source)
    /\ gen_log' = Append(gen_log, [event |-> "load_error"])
    /\ gen_result' = [none |-> TRUE, files |-> <<>>]
    /\ gen_pc' = "returned"
    /\ UNCHANGED <<data_source, df, row_index, generated_files, output_dir,
                   composer_calls, colorVars, pdfVars,
                   labelVars>>

CurrentRow == df[row_index + 1]

InLoop == gen_pc = "loop" /\ row_index < Len(df)

\* lines 497-499: no IMEI, the row is skipped
GenSkipNoImei ==
    /\ InLoop
    /\ NoImei(RowImei(CurrentRow))
    /\ gen_log' = Append(gen_log, [event |-> "skip_no_imei", row |-> row_index])
    /\ row_index' = row_index + 1
    /\ UNCHANGED <<data_source, df, generated_files, output_dir, composer_calls,
                   gen_result, gen_pc, colorVars, pdfVars,
                   labelVars>>

\* lines 502-516: the label is composed, saved and its path appended
GenRowGenerated ==
    /\ InLoop
    /\ ~NoImei(RowImei(CurrentRow))
    /\ LET args == ComposerArgs(CurrentRow)
           filename == LabelFilename(args.imei, row_index, Len(generated_files))
           filepath == LabelFilepath(filename)
       IN  /\ composer_calls' = Append(composer_calls, [row |-> row_index, args |-> args])
           /\ output_dir' = {f \in output_dir : f.path # filepath}
                               \cup {[path |-> filepath, row |-> row_index, complete |-> TRUE]}
           /\ generated_files' = Append(generated_files, filepath)
           /\ gen_log' = Append(gen_log, [event |-> "generated", row |-> row_index])
    /\ row_index' = row_index + 1
    /\ UNCHANGED <<data_source, df, gen_result, gen_pc, colorVars, pdfVars,
                   labelVars>>

GenComposeRaises_Propagates ==
    /\ InLoop
    /\ ~NoImei(RowImei(CurrentRow))
    /\ composer_calls' = Append(composer_calls,
                                [row |-> row_index, args |-> ComposerArgs(CurrentRow)])
    /\ gen_log' = Append(gen_log, [event |-> "error", row |-> row_index])
    /\ gen_pc' = "raised"
    /\ UNCHANGED <<data_source, df, row_index, generated_files, output_dir, gen_result,
                   colorVars, pdfVars,
                   labelVars>>

\* create_barcode_label raises (an encoder rejects the data): caught at
\* line 518, the row yields nothing
GenComposeRaises ==
    /\ InLoop
    /\ ~NoImei(RowImei(CurrentRow))
    /\ composer_calls' = Append(composer_calls,
                                [row |-> row_index, args |-> ComposerArgs(CurrentRow)])
    /\ gen_log' = Append(gen_log, [event |-> "error", row |-> row_index])
    /\ row_index' = row_index + 1
    /\ UNCHANGED <<data_source, df, generated_files, output_dir, gen_result, gen_pc,
                   colorVars, pdfVars,
                   labelVars>>

\* label.save raises: caught at line 518; whether a truncated file is left
\* behind depends on the imaging library
GenSaveRaises ==
    /\ InLoop
    /\ ~NoImei(RowImei(CurrentRow))
    /\ LET args == ComposerArgs(CurrentRow)
           filename == LabelFilename(args.imei, row_index, Len(generated_files))
           filepath == LabelFilepath(filename)
       IN  /\ composer_calls' = Append(composer_calls, [row |-> row_index, args |-> args])
           /\ \E leftover \in BOOLEAN :
                output_dir' = {f \in output_dir : f.path # filepath}
                    \cup (IF leftover
                          THEN {[path |-> filepath, row |-> row_index, complete |-> FALSE]}
                          ELSE {})
    /\ gen_log' = Append(gen_log, [event |-> "error", row |-> row_index])
    /\ row_index' = row_index + 1
    /\ UNCHANGED <<data_source, df, generated_files, gen_result, gen_pc,
                   colorVars, pdfVars,
                   labelVars>>

\* the summary counts the records of the frame
GenReturn_CountsRecords ==
    /\ gen_pc = "loop"
    /\ row_index = Len(df)
    /\ gen_log' = Append(gen_log, [event |-> "summary", count |-> Len(df)])
    /\ gen_result' = [none |-> FALSE, files |-> generated_files]
    /\ gen_pc' = "returned"
    /\ UNCHANGED <<data_source, df, row_index, generated_files, output_dir,
                   composer_calls, colorVars, pdfVars,
                   labelVars>>

\* lines 521-522: the summary line and the return
GenReturn ==
    /\ gen_pc = "loop"
    /\ row_index = Len(df)
    /\ gen_log' = Append(gen_log, [event |-> "summary", count |-> Len(generated_files)])
    /\ gen_result' = [none |-> FALSE, files |-> generated_files]
    /\ gen_pc' = "returned"
    /\ UNCHANGED <<data_source, df, row_index, generated_files, output_dir,
                   composer_calls, colorVars, pdfVars,
                   labelVars>>

NextGen ==
    \/ GenLoad
    \/ GenLoadFails
    \/ GenSkipNoImei
    \/ GenRowGenerated
    \/ GenComposeRaises
    \/ GenSaveRaises
    \/ GenReturn

SpecGen == InitGen /\ [][NextGen]_vars

----------------------------------------------------------------------------
(* The batch driver's claims.  A record's IMEI is read here from whichever *)
(* IMEI column the frame has.                                              *)

ImeiColumns == {"imei", "IMEI/SN", "IMEI"}

HasImeiCell(row) == DOMAIN row \cap ImeiColumns # {}

ImeiCell(row) ==
    IF HasImeiCell(row) THEN row[CHOOSE c \in DOMAIN row \cap ImeiColumns : TRUE]
    ELSE EmptyStr

\* the IMEI is missing, empty or the placeholder 'nan'
ImeiMissing(row) ==
    \/ ~HasImeiCell(row)
    \/ ImeiCell(row) \in {NaN, EmptyStr, NanStr}

\* rows are numbered from 0, as the frame's index
RowIndices == 0..(Len(df) - 1)

RowAt(i) == df[i + 1]

ExpectedName(imei, i) ==
    <<"barcode_label_">> \o imei \o <<"_">> \o Decimal(i + 1) \o <<".png">>

ExpectedPath(i) == <<"generated_barcodes/">> \o ExpectedName(ImeiCell(RowAt(i)), i)

Logged(event, i) ==
    \E k \in 1..Len(gen_log) : gen_log[k].event = event /\ gen_log[k].row = i

Failed(i) == Logged("error", i)

Composed(i) == \E k \in 1..Len(composer_calls) : composer_calls[k].row = i

FilesOfRow(i) == {f \in output_dir : f.row = i}

\* the sequence of ExpectedPath(i), i in rows, in increasing order of i
RECURSIVE PathsInOrder(_, _)
PathsInOrder(rows, from) ==
    IF \A i \in rows : i < from THEN <<>>
    ELSE IF from \in rows
         THEN <<ExpectedPath(from)>> \o PathsInOrder(rows, from + 1)
         ELSE PathsInOrder(rows, from + 1)

GenReturnedList == gen_pc = "returned" /\ ~gen_result.none

C9_FailureIsolated ==
    /\ gen_pc \in {"start", "loop", "returned"}
    /\ \A i \in RowIndices : Failed(i) => row_index > i
    /\ GenReturnedList =>
          /\ row_index = Len(df)
          /\ \A i \in RowIndices :
                /\ Failed(i) \/ Logged("generated", i) \/ Logged("skip_no_imei", i)
                /\ Failed(i) =>
                      \A k \in 1..Len(gen_result.files) : gen_result.files[k] # ExpectedPath(i)
                /\ Logged("generated", i) =>
                      \E k \in 1..Len(gen_result.files) : gen_result.files[k] = ExpectedPath(i)
          /\ Len(gen_result.files) =
                Cardinality({i \in RowIndices : Logged("generated", i)})

\* the first record fails, the second one is generated and returned
C9_Witness ==
    /\ GenReturnedList
    /\ Len(df) >= 2
    /\ Failed(0) /\ Composed(0)
    /\ Logged("generated", 1)
    /\ gen_result.files = <<ExpectedPath(1)>>

NameProbeImeis == {<<"1">>, <<"1", "_", "1">>, <<"1", "_">>, <<"1", "1">>}
NameProbeIndices == 0..11

\* C10: a file's name is barcode_label_{imei}_{rowIndex+1}, whatever
\* happened to the earlier records, and records at different row indices
\* never share a name.
C10_NameFromImeiAndIndex ==
    /\ \A f \in output_dir : f.path = ExpectedPath(f.row)
    /\ \A k \in 1..Len(gen_result.files) :
          \E i \in RowIndices : gen_result.files[k] = ExpectedPath(i)
    /\ \A f, g \in output_dir : f.row # g.row => f.path # g.path
    /\ (gen_pc = "start" /\ data_source.kind = "other") =>
          \A m1, m2 \in NameProbeImeis : \A i1, i2 \in NameProbeIndices :
             i1 # i2 => LabelFilename(m1, i1, 0) # LabelFilename(m2, i2, 0)

\* the first record is skipped or fails, and two later records with the same
\* IMEI are both on disk under different names
C10_Witness ==
    /\ GenReturnedList
    /\ Len(df) = 3
    /\ ~Logged("generated", 0)
    /\ ImeiCell(RowAt(1)) = ImeiCell(RowAt(2))
    /\ gen_result.files = <<ExpectedPath(1), ExpectedPath(2)>>
    /\ Cardinality({f \in output_dir : f.complete}) = 2

----------------------------------------------------------------------------
(* Specification of create_pdf_from_barcodes: one call on one directory *)

\* orders in which glob can list the files: sorted, reversed, rotated by one
Listings(n) ==
    {[k \in 1..n |-> k], [k \in 1..n |-> n + 1 - k], [k \in 1..n |-> (k % n) + 1]}

\* one more file than a default page holds, listed in descending order
OverfullDefaultPage ==
    LET n == DefaultGridCols * DefaultGridRows + 1 IN [k \in 1..n |-> n + 1 - k]

InitPdf ==
    /\ \/ /\ \E n \in 0..MaxImages : listing \in Listings(n)
          /\ grid_cols \in 1..MaxGridCols
          /\ grid_rows \in 1..MaxGridRows
          /\ unreadable \in SUBSET {listing[k] : k \in DOMAIN listing}
       \/ /\ listing = OverfullDefaultPage
          /\ grid_cols = DefaultGridCols
          /\ grid_rows = DefaultGridRows
          /\ unreadable \in {{}, {Len(listing)}, {1}}
    /\ barcode_files = <<>>
    /\ total_pages = 0
    /\ page_num = 0
    /\ page_images = <<>>
    /\ img_i = 0
    /\ assigned = <<>>
    /\ cur_page = <<>>
    /\ doc = <<>>
    /\ warnings = <<>>
    /\ pdf_result = [none |-> TRUE]
    /\ pdf_pc = "start"
    /\ ColorIdle
    /\ GenIdle
    /\ LabelIdle

ImagesPerPage == grid_cols * grid_rows

\* lines 366-371: no image in the directory, the call returns None
PdfNoImages ==
    /\ pdf_pc = "start"
    /\ SortFiles(listing) = <<>>
    /\ barcode_files' = SortFiles(listing)
    /\ pdf_result' = [none |-> TRUE]
    /\ pdf_pc' = "returned"
    /\ UNCHANGED <<listing, grid_cols, grid_rows, unreadable, total_pages, page_num,
                   page_images, img_i, assigned, cur_page, doc, warnings,
                   colorVars, genVars,
                   labelVars>>

\* lines 366-396: the files are listed and sorted, the page count computed
PdfStart ==
    /\ pdf_pc = "start"
    /\ SortFiles(listing) # <<>>
    /\ barcode_files' = SortFiles(listing)
    /\ total_pages' = TotalPages(Len(listing), ImagesPerPage)
    /\ page_num' = 0
    /\ pdf_pc' = "page"
    /\ UNCHANGED <<listing, grid_cols, grid_rows, unreadable, page_images, img_i,
                   assigned, cur_page, doc, warnings, pdf_result, colorVars, genVars,
                   labelVars>>

\* lines 398-407: showPage closes the previous page, then the page's slice of
\* the file list is taken
PdfBeginPage ==
    /\ pdf_pc = "page"
    /\ page_num < total_pages
    /\ IF page_num > 0
       THEN doc' = Append(doc, cur_page) /\ cur_page' = <<>>
       ELSE UNCHANGED <<doc, cur_page>>
    /\ page_images' = PageSlice(barcode_files, page_num, ImagesPerPage)
    /\ assigned' = Append(assigned, PageSlice(barcode_files, page_num, ImagesPerPage))
    /\ img_i' = 0
    /\ pdf_pc' = "images"
    /\ UNCHANGED <<listing, grid_cols, grid_rows, unreadable, barcode_files,
                   total_pages, page_num, warnings, pdf_result, colorVars, genVars,
                   labelVars>>

AtImage == pdf_pc = "images" /\ img_i < Len(page_images)

\* lines 410-423: the image is read and drawn in its cell
PdfDrawImage ==
    /\ AtImage
    /\ page_images[img_i + 1] \notin unreadable
    /\ cur_page' = Append(cur_page, Placement(page_images[img_i + 1], img_i,
                                              grid_cols, grid_rows))
    /\ img_i' = img_i + 1
    /\ UNCHANGED <<listing, grid_cols, grid_rows, unreadable, barcode_files,
                   total_pages, page_num, page_images, assigned, doc, warnings,
                   pdf_result, pdf_pc, colorVars, genVars,
                   labelVars>>

\* the unreadable image is dropped from the page's list, so that the next one
\* moves into its cell
PdfSkipImage_Compacts ==
    /\ AtImage
    /\ page_images[img_i + 1] \in unreadable
    /\ warnings' = Append(warnings, page_images[img_i + 1])
    /\ page_images' = SubSeq(page_images, 1, img_i)
                        \o SubSeq(page_images, img_i + 2, Len(page_images))
    /\ UNCHANGED <<listing, grid_cols, grid_rows, unreadable, barcode_files,
                   total_pages, page_num, img_i, assigned, cur_page, doc,
                   pdf_result, pdf_pc, colorVars, genVars,
                   labelVars>>

PdfSkipImage_Raises ==
    /\ AtImage
    /\ page_images[img_i + 1] \in unreadable
    /\ pdf_pc' = "raised"
    /\ UNCHANGED <<listing, grid_cols, grid_rows, unreadable, barcode_files,
                   total_pages, page_num, page_images, img_i, assigned, cur_page,
                   doc, warnings, pdf_result, colorVars, genVars,
                   labelVars>>

\* lines 424-425: the image cannot be read, a warning is printed and the
\* loop goes on
PdfSkipImage ==
    /\ AtImage
    /\ page_images[img_i + 1] \in unreadable
    /\ warnings' = Append(warnings, page_images[img_i + 1])
    /\ img_i' = img_i + 1
    /\ UNCHANGED <<listing, grid_cols, grid_rows, unreadable, barcode_files,
                   total_pages, page_num, page_images, assigned, cur_page, doc,
                   pdf_result, pdf_pc, colorVars, genVars,
                   labelVars>>

\* the end of the inner loop: on to the next page
PdfEndPage ==
    /\ pdf_pc = "images"
    /\ img_i = Len(page_images)
    /\ page_num' = page_num + 1
    /\ pdf_pc' = "page"
    /\ UNCHANGED <<listing, grid_cols, grid_rows, unreadable, barcode_files,
                   total_pages, page_images, img_i, assigned, cur_page, doc,
                   warnings, pdf_result, colorVars, genVars,
                   labelVars>>

\* lines 427-435: c.save() closes the current page when something was drawn
\* on it; whether a page without any drawing is written is left to the PDF
\* library
PdfSave ==
    /\ pdf_pc = "page"
    /\ page_num = total_pages
    /\ \/ doc' = Append(doc, cur_page)
       \/ cur_page = <<>> /\ doc' = doc
    /\ cur_page' = <<>>
    /\ pdf_result' = [none |-> FALSE]
    /\ pdf_pc' = "returned"
    /\ UNCHANGED <<listing, grid_cols, grid_rows, unreadable, barcode_files,
                   total_pages, page_num, page_images, img_i, assigned, warnings,
                   colorVars, genVars,
                   labelVars>>

NextPdf ==
    \/ PdfNoImages
    \/ PdfStart
    \/ PdfBeginPage
    \/ PdfDrawImage
    \/ PdfSkipImage
    \/ PdfEndPage
    \/ PdfSave

SpecPdf == InitPdf /\ [][NextPdf]_vars

----------------------------------------------------------------------------
(* The paginator's claims.  An image's position k in the sorted input is   *)
(* the number of files whose name sorts before its own.                    *)

InputFiles == {listing[k] : k \in DOMAIN listing}

NumImages == Cardinality(InputFiles)

PositionOf(f) == Cardinality({g \in InputFiles : g < f})

\* ceil(n / per)
CeilDiv(n, per) == CHOOSE p \in 0..n : p * per >= n /\ (p = 0 \/ (p - 1) * per < n)

PdfReturned == pdf_pc = "returned" /\ ~pdf_result.none

Readable == InputFiles \ unreadable

\* the placements of the saved document, each with the page it is on
Placed ==
    UNION {{[page |-> p - 1, at |-> doc[p][q]] : q \in 1..Len(doc[p])} : p \in 1..Len(doc)}

\* C5: for n >= 1 images the page count is ceil(n / (columns * rows)); every
\* page but the last is assigned columns * rows images and the last one the
\* remaining n - (pages - 1) * columns * rows >= 1; 61 images on the 5 x 12
\* grid give 2 pages holding 60 and 1.  The saved document has that many
\* pages whenever an image of the last page is readable.
C5_PageCountAndFill ==
    PdfReturned =>
        LET per == grid_cols * grid_rows
            pages == CeilDiv(NumImages, per)
        IN  /\ NumImages >= 1
            /\ total_pages = pages
            /\ Len(assigned) = pages
            /\ \A p \in 1..(pages - 1) : Len(assigned[p]) = per
            /\ Len(assigned[pages]) = NumImages - (pages - 1) * per
            /\ Len(assigned[pages]) >= 1
            /\ (\E k \in 1..Len(assigned[pages]) : assigned[pages][k] \in Readable)
                  => Len(doc) = pages
            /\ (NumImages = 61 /\ grid_cols = 5 /\ grid_rows = 12)
                  => /\ total_pages = 2
                     /\ Len(assigned[1]) = 60
                     /\ Len(assigned[2]) = 1

\* 61 readable images on the default grid: two pages in the document, 60
\* images drawn on the first and 1 on the second
C5_Witness ==
    /\ PdfReturned
    /\ NumImages = 61 /\ grid_cols = 5 /\ grid_rows = 12
    /\ unreadable = {}
    /\ Len(doc) = 2
    /\ Len(doc[1]) = 60
    /\ Len(doc[2]) = 1

\* C6: the image at position k of the sorted input is on page
\* k div (columns * rows), in row (k mod (columns * rows)) div columns from
\* the top and column k mod columns from the left; images keep their order
\* (page, then row, then column) and no two share a cell.
C6_RowMajorOrder ==
    LET per == grid_cols * grid_rows IN
    /\ \A p \in 1..Len(assigned) : \A q \in 1..Len(assigned[p]) :
          PositionOf(assigned[p][q]) = (p - 1) * per + (q - 1)
    /\ \A pl \in Placed :
          LET k == PositionOf(pl.at.file) IN
          /\ pl.page = k \div per
          /\ pl.at.row = (k % per) \div grid_cols
          /\ pl.at.col = k % grid_cols
          /\ pl.at.row < grid_rows
    /\ \A a, b \in Placed :
          /\ (a.page = b.page /\ a.at.row = b.at.row /\ a.at.col = b.at.col) => a = b
          /\ PositionOf(a.at.file) < PositionOf(b.at.file) =>
                \/ a.page < b.page
                \/ a.page = b.page /\ a.at.row < b.at.row
                \/ a.page = b.page /\ a.at.row = b.at.row /\ a.at.col < b.at.col
          \* rows run from the top (larger y), columns from the left (smaller x)
          /\ a.at.row < b.at.row => a.at.y > b.at.y
          /\ a.at.col < b.at.col => a.at.x < b.at.x

\* a document of two pages on a grid of two columns and two rows, the first
\* page full, listed by glob out of order
C6_Witness ==
    /\ PdfReturned
    /\ grid_cols = 2 /\ grid_rows = 2
    /\ listing # barcode_files
    /\ Len(doc) = 2
    /\ Len(doc[1]) = 4
    /\ doc[1][4].row = 1 /\ doc[1][4].col = 1
    /\ Len(doc[2]) >= 1

\* C7: with any subset of the images unreadable the call does not raise,
\* every readable image is placed once, every unreadable one is left out
\* with a warning, the document is saved, and it has at least as many pages
\* as the readable images alone would need.
C7_UnreadableSkipped ==
    /\ pdf_pc \in {"start", "page", "images", "returned"}
    /\ \A k \in 1..Len(warnings) : warnings[k] \in unreadable
    /\ PdfReturned =>
          /\ \A f \in Readable : Cardinality({pl \in Placed : pl.at.file = f}) = 1
          /\ \A f \in unreadable :
                /\ \A pl \in Placed : pl.at.file # f
                /\ Cardinality({k \in 1..Len(warnings) : warnings[k] = f}) = 1
          /\ Len(doc) >= CeilDiv(Cardinality(Readable), grid_cols * grid_rows)

\* an unreadable image before and after a readable one, on different pages
C7_Witness ==
    /\ PdfReturned
    /\ Len(warnings) >= 2
    /\ \E f \in Readable : \E u1, u2 \in unreadable :
          /\ u1 < f /\ f < u2
          /\ \E pl \in Placed : pl.at.file = f /\ pl.page >= 1
    /\ Len(assigned) >= 3

\* the cell a file's rank in the whole input list gives it
SlotOf(f) ==
    LET k == PositionOf(f)
        per == grid_cols * grid_rows
    IN  [page |-> k \div per, row |-> (k % per) \div grid_cols, col |-> k % grid_cols]

SlotOfPlacement(pl) == [page |-> pl.page, row |-> pl.at.row, col |-> pl.at.col]

\* C19: an unreadable image keeps its grid slot: every drawn image sits in
\* the cell its rank among all input files gives it, readable or not, the
\* cell of an unreadable image stays empty, and the page count comes from
\* the number of input files.
C19_UnreadableKeepsSlot ==
    /\ pdf_pc \in {"page", "images", "returned"} =>
          total_pages = CeilDiv(NumImages, grid_cols * grid_rows)
    /\ \A q \in 1..Len(cur_page) :
          SlotOf(cur_page[q].file).row = cur_page[q].row
             /\ SlotOf(cur_page[q].file).col = cur_page[q].col
    /\ PdfReturned =>
          /\ Len(assigned) = CeilDiv(NumImages, grid_cols * grid_rows)
          /\ \A pl \in Placed : SlotOfPlacement(pl) = SlotOf(pl.at.file)
          /\ \A f \in unreadable : \A pl \in Placed : SlotOfPlacement(pl) # SlotOf(f)

\* an unreadable image with a readable one right after it on the same page:
\* the readable one is drawn in its own cell and not in the freed one
C19_Witness ==
    /\ PdfReturned
    /\ \E u \in unreadable : \E pl \in Placed :
          /\ pl.at.file = u + 1
          /\ SlotOf(u).page = pl.page
          /\ SlotOfPlacement(pl) = SlotOf(u + 1)
          /\ SlotOfPlacement(pl) # SlotOf(u)

\* ---------------------------------------------------------------------
\* The grid geometry of create_pdf_from_barcodes over the grid sizes
\* (lines 380-392 and 410-423), one or two cells of a page being placed.

MaxLayoutCols == 56

MaxLayoutRows == 81

\* the cells looked at: the corners of the grid and their neighbours
ProbeCells(cols, rows) ==
    {0, 1, cols - 1, cols, cols * rows - 1} \cap (0..(cols * rows - 1))

InitGrid ==
    /\ grid_cols \in 1..MaxLayoutCols
    /\ grid_rows \in 1..MaxLayoutRows
    /\ listing = <<>>
    /\ unreadable = {}
    /\ barcode_files = <<>>
    /\ total_pages = 0
    /\ page_num = 0
    /\ page_images = <<>>
    /\ img_i = 0
    /\ assigned = <<>>
    /\ cur_page = <<>>
    /\ doc = <<>>
    /\ warnings = <<>>
    /\ pdf_result = [none |-> TRUE]
    /\ pdf_pc = "layout"
    /\ ColorIdle
    /\ GenIdle
    /\ LabelIdle

\* lines 410-423 for the image at index i of a page
GridPlace ==
    /\ pdf_pc = "layout"
    /\ Len(cur_page) < 2
    /\ \E i \in ProbeCells(grid_cols, grid_rows) :
          /\ \A q \in 1..Len(cur_page) : cur_page[q].file # i + 1
          /\ cur_page' = Append(cur_page, Placement(i + 1, i, grid_cols, grid_rows))
    /\ UNCHANGED <<listing, grid_cols, grid_rows, unreadable, barcode_files,
                   total_pages, page_num, page_images, img_i, assigned, doc,
                   warnings, pdf_result, pdf_pc, colorVars, genVars,
                   labelVars>>

NextGrid == GridPlace

SpecGrid == InitGrid /\ [][NextGrid]_vars

\* the cell of a placement: its left and bottom edge, in the units of x and y
CellLeft(pl) == Margin * PointDen * grid_cols + pl.col * AvailableWidthNum

CellBottom(pl) ==
    (PageHeightNum - Margin * PointDen) * grid_rows - (pl.row + 1) * AvailableHeightNum

\* the drawn size is the cell less the padding on both sides, and no larger
\* than the cell
SizedFromCell(pl) ==
    /\ pl.w = AvailableWidthNum - 2 * ImagePadding * PointDen * grid_cols
    /\ pl.h = AvailableHeightNum - 2 * ImagePadding * PointDen * grid_rows
    /\ pl.w <= AvailableWidthNum
    /\ pl.h <= AvailableHeightNum

AnchoredAtPaddedCorner(pl) ==
    /\ pl.x = CellLeft(pl) + ImagePadding * PointDen * grid_cols
    /\ pl.y = CellBottom(pl) + ImagePadding * PointDen * grid_rows

InsideOwnCell(pl) ==
    /\ CellLeft(pl) <= pl.x
    /\ pl.x + pl.w <= CellLeft(pl) + AvailableWidthNum
    /\ CellBottom(pl) <= pl.y
    /\ pl.y + pl.h <= CellBottom(pl) + AvailableHeightNum

InsideMargins(pl) ==
    /\ Margin * PointDen * grid_cols <= pl.x
    /\ pl.x + pl.w <= (PageWidthNum - Margin * PointDen) * grid_cols
    /\ Margin * PointDen * grid_rows <= pl.y
    /\ pl.y + pl.h <= (PageHeightNum - Margin * PointDen) * grid_rows

Overlap(a, b) ==
    /\ a.x < b.x + b.w
    /\ b.x < a.x + a.w
    /\ a.y < b.y + b.h
    /\ b.y < a.y + a.h

WellPlaced(pl) ==
    /\ AvailableWidthNum > 0
    /\ AvailableHeightNum > 0
    /\ SizedFromCell(pl)
    /\ pl.w > 0
    /\ pl.h > 0
    /\ AnchoredAtPaddedCorner(pl)
    /\ InsideOwnCell(pl)
    /\ InsideMargins(pl)

SummaryLines == {k \in 1..Len(gen_log) : gen_log[k].event = "summary"}

\* C17: on every path by which generate_from_data ends it has reported a
\* summary that gives the number of records processed and the number
\* skipped, the two adding up to the number of records.
C17_SummaryOnEveryPath ==
    gen_pc = "returned" =>
        \E k \in SummaryLines :
            /\ "skipped" \in DOMAIN gen_log[k]
            /\ gen_log[k].count + gen_log[k].skipped = Len(df)

Skipped(i) == Logged("skip_no_imei", i)

\* C17, amended: a call that got a data frame ends with exactly one summary
\* line, the last thing it reports, giving the number of labels generated,
\* which is the number of records less those skipped and those that failed;
\* no number of skipped records is reported.  A call that could not load
\* its data ends with the load error alone and no summary.
C17_SummaryOfGenerated ==
    /\ GenReturnedList =>
          /\ SummaryLines = {Len(gen_log)}
          /\ DOMAIN gen_log[Len(gen_log)] = {"event", "count"}
          /\ gen_log[Len(gen_log)].count = Len(gen_result.files)
          /\ gen_log[Len(gen_log)].count
                = Cardinality({i \in RowIndices : ~Skipped(i) /\ ~Failed(i)})
    /\ (gen_pc = "returned" /\ gen_result.none) =>
          /\ SummaryLines = {}
          /\ gen_log = <<[event |-> "load_error"]>>

\* a batch with a skipped record, a failed one and a generated one
C17_Witness ==
    /\ GenReturnedList
    /\ \E i, j, k \in RowIndices :
          Skipped(i) /\ Failed(j) /\ ~Skipped(k) /\ ~Failed(k)
    /\ gen_log[Len(gen_log)].count = 1

----------------------------------------------------------------------------
(* create_barcode_label: one record of a batch composed into a label.      *)
(* Pixel coordinates are integers; a font is a face and a size; what        *)
(* textbbox measures is an input of the environment.                        *)

label_width == 650
label_height == 300
x_start == 30
y_top == 20
barcode_width == 460
barcode_height == 60
dn_font_size == 30
qr_size == 150
qr_y_pos == 65
circle_diameter == 40
circle_y_center == 270

ArialBoldFile == "ARIALBD.TTF"
SysArialBold == "/System/Library/Fonts/Arial Bold.ttf"
SysArial == "/System/Library/Fonts/Arial.ttf"
ArialFile == "arial.ttf"

FontSources == {ArialBoldFile, SysArialBold, SysArial, ArialFile}

\* ImageFont.truetype(name, size) returns a font when the file can be opened
\* and the size is positive, and raises otherwise
Loads_truetype(name, size) == name \in fonts_available /\ size > 0

truetype(name, size) == [face |-> name, size |-> size]

\* ImageFont.load_default(): the built-in face, of no selectable size
load_default == [face |-> "default", size |-> 0]

NoFont == [face |-> "none", size |-> 0]

\* lines 113-128: font_large, font_medium and font_circle
BoldBaseFonts ==
    IF Loads_truetype(ArialBoldFile, 35)
    THEN [font_large |-> truetype(ArialBoldFile, 35),
          font_medium |-> truetype(ArialBoldFile, 20),
          font_circle |-> truetype(ArialBoldFile, 28)]
    ELSE IF Loads_truetype(SysArialBold, 40)
    THEN [font_large |-> truetype(SysArialBold, 40),
          font_medium |-> truetype(SysArialBold, 20),
          font_circle |-> truetype(SysArialBold, 28)]
    ELSE [font_large |-> load_default, font_medium |-> load_default,
          font_circle |-> load_default]

\* the local file tried before the system one
RegularBaseFont_LocalFirst ==
    IF Loads_truetype(ArialFile, 18) THEN truetype(ArialFile, 18)
    ELSE IF Loads_truetype(SysArial, 18) THEN truetype(SysArial, 18)
    ELSE load_default

\* lines 130-137: font_regular
RegularBaseFont ==
    IF Loads_truetype(SysArial, 18) THEN truetype(SysArial, 18)
    ELSE IF Loads_truetype(ArialFile, 18) THEN truetype(ArialFile, 18)
    ELSE load_default

\* lines 179-190 and 249-260: the bold face and the value's face of a caption
\* at the new size, loaded pair by pair
ScaledPair(size, fonts) ==
    IF Loads_truetype(ArialBoldFile, size) /\ Loads_truetype(ArialFile, size)
    THEN [bold_font |-> truetype(ArialBoldFile, size),
          number_font |-> truetype(ArialFile, size)]
    ELSE IF Loads_truetype(SysArialBold, size) /\ Loads_truetype(SysArial, size)
    THEN [bold_font |-> truetype(SysArialBold, size),
          number_font |-> truetype(SysArial, size)]
    ELSE [bold_font |-> fonts.font_medium, number_font |-> fonts.font_regular]

\* lines 213-219 and 283-289: the value's stretched font
StretchedFont(size, fallback) ==
    IF Loads_truetype(ArialFile, size) THEN truetype(ArialFile, size)
    ELSE IF Loads_truetype(SysArial, size) THEN truetype(SysArial, size)
    ELSE fallback

\* lines 301-307: dn_font
DnFont(fonts) ==
    IF Loads_truetype(ArialFile, dn_font_size) THEN truetype(ArialFile, dn_font_size)
    ELSE IF Loads_truetype(SysArial, dn_font_size) THEN truetype(SysArial, dn_font_size)
    ELSE fonts.font_large

\* the size rounded to the nearest integer, from the size of font_medium
NewFontSize_RoundedFromMeasured(text_width) ==
    (2 * 20 * barcode_width + text_width) \div (2 * text_width)

\* lines 177-178 and 247-248: int(16 * (barcode_width / text_width)); the
\* quotient is an integer only when barcode_width / text_width is a binary
\* fraction, so the truncation of the float is the integer quotient
NewFontSize(text_width) == (16 * barcode_width) \div text_width

\* lines 211-212 and 281-282: int(25 * (available_width / number_width))
NumberFontSize(available_width, number_width) ==
    (25 * available_width) \div number_width

\* what composing one caption line computes: the fonts of the label and of
\* the value, and where the value starts.  skip_font is the value's font when
\* the text is not scaled.
Caption(name, text_width, label_w, number_width, skip_font, fonts) ==
    LET scaled == text_width < barcode_width
        pair == IF scaled
                THEN ScaledPair(NewFontSize(text_width), fonts)
                ELSE [bold_font |-> fonts.font_medium, number_font |-> skip_font]
        number_x == x_start + label_w + 5
        available_width == barcode_width - (number_x - x_start)
        stretched == number_width < available_width
    IN  [caption |-> name, text_width |-> text_width, scaled |-> scaled,
         new_font_size |-> IF scaled THEN NewFontSize(text_width) ELSE 0,
         bold_font |-> pair.bold_font, number_font |-> pair.number_font,
         number_x |-> number_x, available_width |-> available_width,
         number_width |-> number_width, stretched |-> stretched,
         stretched_number_font |->
             IF stretched
             THEN StretchedFont(NumberFontSize(available_width, number_width),
                                pair.number_font)
             ELSE pair.number_font]

Item(kind, x, y, w, h, data, font) ==
    [kind |-> kind, x |-> x, y |-> y, w |-> w, h |-> h, data |-> data, font |-> font]

\* the canvas taller when there is a box id
NewLabel_GrowsWithBox(box_id) ==
    [width |-> label_width,
     height |-> IF box_id = EmptyStr THEN label_height ELSE label_height + barcode_height,
     items |-> <<>>]

\* line 109: Image.new('RGB', (label_width, label_height), 'white')
NewLabel(box_id) == [width |-> label_width, height |-> label_height, items |-> <<>>]

Draw(items) == [label EXCEPT !.items = @ \o items]

\* widths textbbox may report
TextWidths == {230, 300, 459, 460, 600}
LabelWidths == {60, 500}
NumberWidths == {150, 400}
ColorWidths == {90}
GlyphBoxes == {[w |-> 20, h |-> 20]}

\* the box id cells of a record: missing value, empty cell, a value
BoxProbeCells == {NaN, EmptyStr, <<"7">>}

LabelRows ==
    {[imei |-> <<"1">>, color |-> <<"n">>]}
        \cup {[imei |-> <<"1">>, color |-> <<"n">>, box_id |-> b] : b \in BoxProbeCells}
        \cup {[IMEI |-> <<"1">>, Color |-> <<"n">>, Boxid |-> b] : b \in BoxProbeCells}

InitLabel ==
    /\ label_row \in LabelRows
    /\ fonts_available \in SUBSET FontSources
    /\ label_args = [none |-> TRUE]
    /\ font_of = [none |-> TRUE]
    /\ label = [none |-> TRUE]
    /\ y_pos = 0
    /\ captions = <<>>
    /\ label_pc = "record"
    /\ ColorIdle
    /\ GenIdle
    /\ PdfIdle

\* generate_from_data lines 484-508 for one record with an IMEI, and lines
\* 106-137 of the composer: the canvas and the four base fonts
LabelCall ==
    /\ label_pc = "record"
    /\ ~NoImei(RowImei(label_row))
    /\ label_args' = ComposerArgs(label_row)
    /\ label' = NewLabel(RowBoxId(label_row))
    /\ font_of' = [font_regular |-> RegularBaseFont] @@ BoldBaseFonts
    /\ label_pc' = "top"
    /\ UNCHANGED <<label_row, fonts_available, y_pos, captions,
                   colorVars, genVars, pdfVars>>

\* lines 139-151: model on the left, colour right-aligned
LabelTop ==
    /\ label_pc = "top"
    /\ \E color_width \in ColorWidths :
          label' = Draw(<<Item("text", x_start, y_top, 0, 0, label_args.model,
                               font_of.font_large),
                          Item("text", label_width - color_width - 60, y_top, 0, 0,
                               Upper(label_args.color), font_of.font_large)>>)
    /\ label_pc' = "barcode"
    /\ UNCHANGED <<label_row, label_args, fonts_available, font_of, y_pos,
                   captions, colorVars, genVars, pdfVars>>

\* lines 157-163: the first barcode
LabelImeiBarcode ==
    /\ label_pc = "barcode"
    /\ label' = Draw(<<Item("barcode", x_start, 70, barcode_width, barcode_height,
                            label_args.imei, NoFont)>>)
    /\ y_pos' = 70 + barcode_height + 8
    /\ label_pc' = "caption"
    /\ UNCHANGED <<label_row, label_args, fonts_available, font_of, captions,
                   colorVars, genVars, pdfVars>>

\* lines 165-224: the IMEI caption
LabelImeiCaption ==
    /\ label_pc = "caption"
    /\ \E text_width \in TextWidths, imei_width \in LabelWidths,
          number_width \in NumberWidths :
          LET c == Caption("IMEI", text_width, imei_width, number_width,
                           font_of.font_regular, font_of)
          IN  /\ captions' = Append(captions, c)
              /\ font_of' = [bold_font |-> c.bold_font,
                             regular_font |-> c.number_font,
                             stretched_number_font |-> c.stretched_number_font]
                               @@ font_of
              /\ label' = Draw(<<Item("text", x_start, y_pos, 0, 0,
                                      <<"I", "M", "E", "I">>, c.bold_font),
                                 Item("text", c.number_x, y_pos, 0, 0,
                                      label_args.imei, c.stretched_number_font)>>)
    /\ label_pc' = "box"
    /\ UNCHANGED <<label_row, label_args, fonts_available, y_pos,
                   colorVars, genVars, pdfVars>>

\* line 227: if box_id
HasBoxId(box_id) == box_id # EmptyStr

\* lines 227-309: the second barcode, the Box ID caption and the D/N line
LabelBoxSection ==
    /\ label_pc = "box"
    /\ HasBoxId(label_args.box_id)
    /\ \E text_width \in TextWidths, box_width \in LabelWidths,
          number_width \in NumberWidths :
          LET c == Caption("Box ID", text_width, box_width, number_width,
                           font_of.font_medium, font_of)
              dn_font == DnFont(font_of)
              y_barcode == y_pos + 35
              y_caption == y_barcode + barcode_height + 0
              y_dn == y_caption + 35
          IN  /\ captions' = Append(captions, c)
              /\ font_of' = [bold_font |-> c.bold_font,
                             number_font |-> c.number_font,
                             stretched_number_font |-> c.stretched_number_font,
                             dn_font |-> dn_font] @@ font_of
              /\ label' = Draw(<<Item("barcode", x_start, y_barcode, barcode_width,
                                      barcode_height, label_args.box_id, NoFont),
                                 Item("text", x_start, y_caption, 0, 0,
                                      <<"B", "o", "x", " ", "I", "D">>, c.bold_font),
                                 Item("text", c.number_x, y_caption, 0, 0,
                                      label_args.box_id, c.stretched_number_font),
                                 Item("text", x_start, y_dn, 0, 0,
                                      <<"D", "/", "N", ":", " ">> \o label_args.dn,
                                      dn_font)>>)
              /\ y_pos' = y_dn
    /\ label_pc' = "qr"
    /\ UNCHANGED <<label_row, label_args, fonts_available,
                   colorVars, genVars, pdfVars>>

\* line 227, box_id empty: nothing is drawn
LabelNoBox ==
    /\ label_pc = "box"
    /\ ~HasBoxId(label_args.box_id)
    /\ label_pc' = "qr"
    /\ UNCHANGED <<label_row, label_args, fonts_available, font_of, label, y_pos,
                   captions, colorVars, genVars, pdfVars>>

\* lines 311-348: the matrix code, the circle with its letter, and the return.
\* The letter's box is of even width and height, so that the halves are whole.
LabelQrAndMarker ==
    /\ label_pc = "qr"
    /\ \E a \in GlyphBoxes :
          LET qr_x_pos == label_width - qr_size - 0
              circle_x_center == qr_x_pos + (qr_size \div 2) + 15
              circle_left == circle_x_center - circle_diameter \div 2
              circle_top == circle_y_center - circle_diameter \div 2
          IN  label' = Draw(<<Item("qr", qr_x_pos, qr_y_pos, qr_size, qr_size,
                                   label_args.imei, NoFont),
                              Item("ellipse", circle_left, circle_top,
                                   circle_diameter, circle_diameter, <<>>, NoFont),
                              Item("text", circle_x_center - a.w \div 2,
                                   circle_y_center - a.h \div 2 - 3, 0, 0, <<"A">>,
                                   font_of.font_circle)>>)
    /\ label_pc' = "returned"
    /\ UNCHANGED <<label_row, label_args, fonts_available, font_of, y_pos,
                   captions, colorVars, genVars, pdfVars>>

\* lines 159, 229, 314: an encoder raises on the data it is given; the
\* exception leaves the composer and no label is returned
LabelEncoderRaises ==
    /\ \/ label_pc \in {"barcode", "qr"}
       \/ label_pc = "box" /\ HasBoxId(label_args.box_id)
    /\ label_pc' = "raised"
    /\ UNCHANGED <<label_row, label_args, fonts_available, font_of, label, y_pos,
                   captions, colorVars, genVars, pdfVars>>

NextLabel ==
    \/ LabelCall
    \/ LabelTop
    \/ LabelImeiBarcode
    \/ LabelImeiCaption
    \/ LabelBoxSection
    \/ LabelNoBox
    \/ LabelQrAndMarker
    \/ LabelEncoderRaises

SpecLabel == InitLabel /\ [][NextLabel]_vars

LabelReturned == label_pc = "returned"

ItemsOf(kind) == {k \in 1..Len(label.items) : label.items[k].kind = kind}

\* C11: the image create_barcode_label returns is exactly 650 pixels wide
\* and 300 pixels high, with or without a box id and whatever fonts were
\* resolved and whichever scaling branches were taken.
C11_CanvasSize ==
    LabelReturned => label.width = 650 /\ label.height = 300

\* a label with a box section, composed with no font file available, one
\* caption scaled and the other not
C11_Witness ==
    /\ LabelReturned
    /\ fonts_available = {}
    /\ Len(captions) = 2
    /\ captions[1].scaled
    /\ ~captions[2].scaled
    /\ captions[2].stretched

BoxIdColumns == {"box_id", "Box ID", "Boxid"}

\* the record carries a box id: a box id column whose cell is neither a
\* missing value nor empty
RecordHasBoxId(row) ==
    \E c \in BoxIdColumns \cap DOMAIN row : row[c] # NaN /\ row[c] # EmptyStr

TextDrawn(prefix) ==
    \E k \in ItemsOf("text") :
        /\ Len(label.items[k].data) >= Len(prefix)
        /\ SubSeq(label.items[k].data, 1, Len(prefix)) = prefix

BoxSectionDrawn ==
    /\ Cardinality(ItemsOf("barcode")) = 2
    /\ TextDrawn(<<"B", "o", "x", " ", "I", "D">>)
    /\ TextDrawn(<<"D", "/", "N", ":", " ">>)

BoxSectionAbsent ==
    /\ Cardinality(ItemsOf("barcode")) = 1
    /\ ~TextDrawn(<<"B", "o", "x", " ", "I", "D">>)
    /\ ~TextDrawn(<<"D", "/", "N", ":", " ">>)

\* C12: the label of a record gets the second barcode, the 'Box ID' caption
\* and the 'D/N' line exactly when the record has a box id; without a box id
\* (no column, empty cell or missing value) it gets none of the three, and
\* no barcode encodes the text that stands for a missing value.
C12_BoxSectionIffBoxId ==
    LabelReturned =>
        /\ RecordHasBoxId(label_row) => BoxSectionDrawn
        /\ ~RecordHasBoxId(label_row) => BoxSectionAbsent
        /\ \A k \in ItemsOf("barcode") : label.items[k].data # NanStr

\* the caption lines composed so far whose text was measured at least as
\* wide as the barcode
WideCaptions == {k \in 1..Len(captions) : captions[k].text_width >= 460}

\* C13: a caption whose text measures 460 pixels or more at the base size is
\* not scaled and keeps the base fonts, the bold base face for the label and
\* the regular base face as the value's starting face, for the IMEI caption
\* and for the Box ID caption alike.
C13_SkipKeepsBaseFonts ==
    \A k \in WideCaptions :
        /\ ~captions[k].scaled
        /\ captions[k].bold_font = font_of.font_medium
        /\ captions[k].number_font = font_of.font_regular

NarrowCaptions == {k \in 1..Len(captions) : captions[k].text_width < 460}

\* n is x / y rounded to the nearest integer (halves up or down)
IsRounded(n, x, y) == 2 * n * y - y <= 2 * x /\ 2 * x <= 2 * n * y + y

\* n is x / y truncated
IsTruncated(n, x, y) == n * y <= x /\ x < (n + 1) * y

\* C14 as stated: a caption whose text measures w < 460 at the base label
\* size gets the new size round(base_label_size * 460 / w), the base label
\* size being the size of the font w was measured with, for the IMEI and the
\* Box ID caption alike.  (Stated for the runs whose measuring font has a
\* size, i.e. is not the built-in face.)
C14_RoundedFromMeasuredSize ==
    \A k \in NarrowCaptions :
        font_of.font_medium.size > 0 =>
            /\ captions[k].scaled
            /\ IsRounded(captions[k].new_font_size,
                         font_of.font_medium.size * 460, captions[k].text_width)

\* C14, amended: a caption is scaled exactly when its text measures w < 460
\* with font_medium, and its new size is then 16 * 460 / w truncated to an
\* integer, 16 being fixed whatever the measuring font; the bold label is
\* drawn at that size, or in font_medium when no pair of font files loads.
\* The same holds for the IMEI and the Box ID caption.
C14_TruncatedFromSixteen ==
    \A k \in 1..Len(captions) :
        /\ captions[k].scaled <=> k \in NarrowCaptions
        /\ captions[k].scaled =>
              /\ IsTruncated(captions[k].new_font_size, 16 * 460, captions[k].text_width)
              /\ \/ captions[k].bold_font.size = captions[k].new_font_size
                 \/ captions[k].bold_font = font_of.font_medium

\* both captions scaled from a width at which truncating and rounding
\* differ, the bold label drawn at the new size
C14_Witness ==
    /\ LabelReturned
    /\ Len(captions) = 2
    /\ \A k \in 1..2 :
          /\ captions[k].text_width = 300
          /\ captions[k].new_font_size = 24
          /\ captions[k].bold_font.size = 24

Candidate(face, size) == [face |-> face, size |-> size]

CanLoad(c) == c.face \in fonts_available /\ c.size > 0

\* the first candidate of the list that loads, or the fallback
FirstThatLoads(candidates, fallback) ==
    IF \E k \in 1..Len(candidates) : CanLoad(candidates[k])
    THEN candidates[CHOOSE k \in 1..Len(candidates) :
                        /\ CanLoad(candidates[k])
                        /\ \A j \in 1..(k - 1) : ~CanLoad(candidates[j])]
    ELSE fallback

\* the first pair of the list of which both fonts load, or the fallback pair
FirstPairThatLoads(pairs, fallback) ==
    IF \E k \in 1..Len(pairs) : CanLoad(pairs[k][1]) /\ CanLoad(pairs[k][2])
    THEN pairs[CHOOSE k \in 1..Len(pairs) :
                   /\ CanLoad(pairs[k][1]) /\ CanLoad(pairs[k][2])
                   /\ \A j \in 1..(k - 1) : ~(CanLoad(pairs[j][1]) /\ CanLoad(pairs[j][2]))]
    ELSE fallback

BuiltIn == [face |-> "default", size |-> 0]

BaseFontsResolved ==
    /\ font_of.font_large
         = FirstThatLoads(<<Candidate(ArialBoldFile, 35), Candidate(SysArialBold, 40)>>, BuiltIn)
    /\ font_of.font_medium
         = FirstThatLoads(<<Candidate(ArialBoldFile, 20), Candidate(SysArialBold, 20)>>, BuiltIn)
    /\ font_of.font_circle
         = FirstThatLoads(<<Candidate(ArialBoldFile, 28), Candidate(SysArialBold, 28)>>, BuiltIn)
    /\ font_of.font_regular
         = FirstThatLoads(<<Candidate(SysArial, 18), Candidate(ArialFile, 18)>>, BuiltIn)

StretchedResolved(c) ==
    c.stretched =>
        \E m \in 1..(25 * 460) :
            /\ IsTruncated(m, 25 * c.available_width, c.number_width)
            /\ c.stretched_number_font
                 = FirstThatLoads(<<Candidate(ArialFile, m), Candidate(SysArial, m)>>,
                                  c.number_font)

DnResolved ==
    "dn_font" \in DOMAIN font_of =>
        font_of.dn_font
          = FirstThatLoads(<<Candidate(ArialFile, 30), Candidate(SysArial, 30)>>,
                           font_of.font_large)

\* every font variable a step has used is bound, and every text is drawn in a
\* font that loaded or in the built-in face
FontsBound ==
    /\ label_pc \in {"top", "barcode", "caption", "box", "qr", "returned"} =>
          {"font_large", "font_medium", "font_circle", "font_regular"} \subseteq DOMAIN font_of
    /\ label_pc \in {"box", "qr", "returned"} =>
          {"bold_font", "regular_font", "stretched_number_font"} \subseteq DOMAIN font_of
    /\ (label_pc \in {"qr", "returned"} /\ Len(captions) = 2) =>
          {"number_font", "dn_font"} \subseteq DOMAIN font_of
    /\ label_pc # "idle" /\ label_pc # "record" =>
          \A k \in ItemsOf("text") :
              \/ label.items[k].font = BuiltIn
              \/ CanLoad(label.items[k].font)

\* C15 as stated: whatever font files are missing, each font (large, medium,
\* circle, regular, scaled bold label, scaled value, stretched value, D/N) is
\* the first of its own ordered candidates that loads, or its fallback when
\* none loads, and every font variable is bound before it is used.
C15_EachFontFirstThatLoads ==
    label_pc \notin {"idle", "record"} =>
        /\ FontsBound
        /\ BaseFontsResolved
        /\ DnResolved
        /\ \A k \in 1..Len(captions) :
              /\ StretchedResolved(captions[k])
              /\ captions[k].scaled =>
                    /\ captions[k].bold_font
                         = FirstThatLoads(<<Candidate(ArialBoldFile, captions[k].new_font_size),
                                            Candidate(SysArialBold, captions[k].new_font_size)>>,
                                          font_of.font_medium)
                    /\ captions[k].number_font
                         = FirstThatLoads(<<Candidate(ArialFile, captions[k].new_font_size),
                                            Candidate(SysArial, captions[k].new_font_size)>>,
                                          font_of.font_regular)

\* C15, amended: the same, except that the scaled bold label and the scaled
\* value are resolved together: the first pair of sources (ARIALBD.TTF with
\* arial.ttf, then the two system files) of which both fonts load is used,
\* and when neither pair loads both fall back to the base fonts.
C15_ScaledFontsByPair ==
    label_pc \notin {"idle", "record"} =>
        /\ FontsBound
        /\ BaseFontsResolved
        /\ DnResolved
        /\ \A k \in 1..Len(captions) :
              /\ StretchedResolved(captions[k])
              /\ captions[k].scaled =>
                    <<captions[k].bold_font, captions[k].number_font>>
                      = FirstPairThatLoads(
                          <<<<Candidate(ArialBoldFile, captions[k].new_font_size),
                              Candidate(ArialFile, captions[k].new_font_size)>>,
                            <<Candidate(SysArialBold, captions[k].new_font_size),
                              Candidate(SysArial, captions[k].new_font_size)>>>>,
                          <<font_of.font_medium, font_of.font_regular>>)

\* a label with a box section composed with the system Arial as the only font
\* file: the bold fonts are the built-in face, both captions are scaled and
\* fall back to the base pair, the values are stretched in the system Arial
C15_Witness ==
    /\ LabelReturned
    /\ fonts_available = {SysArial}
    /\ Len(captions) = 2
    /\ \A k \in 1..2 :
          /\ captions[k].scaled
          /\ captions[k].bold_font = BuiltIn
          /\ captions[k].stretched
          /\ captions[k].stretched_number_font.face = SysArial
    /\ font_of.dn_font.face = SysArial

TheItem(kind) == label.items[CHOOSE k \in ItemsOf(kind) : \A j \in ItemsOf(kind) : k <= j]

FlushRight(qr) == qr.w = 150 /\ qr.h = 150 /\ qr.x = 500 /\ qr.x + qr.w = 650

InsideCanvas(it) ==
    /\ 0 <= it.x
    /\ it.x + it.w <= 650
    /\ 0 <= it.y
    /\ it.y + it.h <= 300

\* C18: the 150x150 matrix code is flush to the right edge (x from 500 to
\* 650) with its top at the y of the first barcode's top (70); the 40-pixel
\* circle is centred beneath it, its centre x being the matrix code's centre
\* x (575), and lies wholly inside the 650x300 canvas.
C18_MatrixCodeAndMarker ==
    LabelReturned =>
        LET qr == TheItem("qr")
            circle == TheItem("ellipse")
            first_barcode == TheItem("barcode")
        IN  /\ FlushRight(qr)
            /\ qr.y = first_barcode.y
            /\ qr.y = 70
            /\ circle.w = 40 /\ circle.h = 40
            /\ 2 * circle.x + circle.w = 2 * qr.x + qr.w
            /\ 2 * circle.x + circle.w = 2 * 575
            /\ circle.y >= qr.y + qr.h
            /\ InsideCanvas(circle)

====
